---- MODULE Spec2Model ----
(***************************************************************************)
(* srcYUML: stereotype classification (srcyuml_class::analyze_data),       *)
(* relationship merging and diagram assembly                               *)
(* (svg_sugiyama_outputter::output) and SVG edge rendering                 *)
(* (SvgPrinter::drawEdges / drawEdge).                                     *)
(***************************************************************************)
EXTENDS Integers, Sequences, FiniteSets, TLC

VARIABLES
    \* ---- svg_sugiyama_outputter ----
    pc,              \* position inside output(): ready/nodes/rels/edges/draw/done/crashed
    ncalls,          \* number of output() calls started on this object
    classes,         \* argument `classes` of the running call (class names)
    relationships,   \* relationships.get_relationships() of the running call
    idx,             \* index of the running loop
    class_node_map,  \* std::map<std::string, node>: set of <<name, node>>
    edge_type_map,   \* std::multimap<pair<node,node>, relationship_type>: set of entries
    g_nodes,         \* member Graph g: its nodes, in creation order (label of each)
    g_edges,         \* member Graph g: its edges, in creation order
    doc,             \* the document built by the last drawSVG
    stream_ok,       \* state of the std::ostream the document was saved to
    ret,             \* value returned by the last output() call
    labels           \* per class: the num_lines and longest_line generate_label reports

outVars == <<pc, ncalls, classes, relationships, idx, class_node_map,
             edge_type_map, g_nodes, g_edges, doc, stream_ok, ret, labels>>

    \* ---- srcyuml_class ----
VARIABLES
    data,            \* const ClassPolicy::ClassData * data
    has_field,
    has_constructor,
    has_destructor,
    has_method,
    type,            \* class_type
    analyzed,        \* whether the owner has called analyze_data()
    out              \* what operator<< has written for the class: a list of tokens

clsVars == <<data, has_field, has_constructor, has_destructor, has_method, type, analyzed,
             out>>

    \* ---- SvgPrinter ----
VARIABLES
    m_attr,          \* GraphAttributes: flags, node geometry, number of edges
    m_settings,      \* GraphIO::SVGSettings: curviness and bezier interpolation
    svg_pc,          \* position inside drawEdges(): start/edges/done
    e_idx,           \* number of edges drawEdges() has visited
    cur_edge,        \* the edge handed to the last drawEdge() call
    cur_points,      \* the point list that call built
    xml,             \* per visited edge: what its <g> element received
    log              \* GraphIO::logger: the edges a diagnostic was written for

svgVars == <<m_attr, m_settings, svg_pc, e_idx, cur_edge, cur_points, xml, log>>

vars == <<outVars, clsVars, svgVars>>

----------------------------------------------------------------------------
(* Bounds *)
MaxRecs  == 3    \* records on one class pair (merge specification)
MaxRels  == 2    \* relationship records of one call (general specification)
MaxCalls == 2    \* output() calls on one object
MaxCallRels == 1 \* relationship records of one call when calls repeat

ClassNames == {"A", "B"}

\* enum relationship_type, as listed by the switch in output()
Kinds == {"DEPENDENCY", "ASSOCIATION", "BIDIRECTIONAL", "AGGREGATION",
          "COMPOSITION", "GENERALIZATION", "REALIZATION"}

\* An ogdf::node that was never assigned: a pointer into no graph.
Wild == 0

SeqsUpTo(S, n) == UNION {[1..k -> S] : k \in 0..n}

----------------------------------------------------------------------------
(* Exact arithmetic for coordinates: a double is modelled by the rational   *)
(* <<numerator, denominator>> with a positive denominator.                  *)

Abs(n) == IF n < 0 THEN -n ELSE n

RECURSIVE GCD(_, _)
GCD(a, b) == IF b = 0 THEN a ELSE GCD(b, a % b)

RNorm(n, d) ==
    LET g == GCD(Abs(n), Abs(d))
        k == IF g = 0 THEN 1 ELSE g
        sgn == IF d < 0 THEN -1 ELSE 1
    IN  <<(sgn * n) \div k, (sgn * d) \div k>>

RInt(n)    == <<n, 1>>
\* the common divisor of two denominators (1 when both are 0), divided out
\* before the products are formed to keep them small
DenGCD(a, b) == IF GCD(Abs(a), Abs(b)) = 0 THEN 1 ELSE GCD(Abs(a), Abs(b))

RAdd(a, b) ==
    LET g == DenGCD(a[2], b[2])
    IN  RNorm(a[1] * (b[2] \div g) + b[1] * (a[2] \div g), (a[2] \div g) * b[2])
RSub(a, b) ==
    LET g == DenGCD(a[2], b[2])
    IN  RNorm(a[1] * (b[2] \div g) - b[1] * (a[2] \div g), (a[2] \div g) * b[2])
RMul(a, b) ==
    LET g == DenGCD(a[1], b[2])
        h == DenGCD(b[1], a[2])
    IN  RNorm((a[1] \div g) * (b[1] \div h), (a[2] \div h) * (b[2] \div g))
RDiv(a, b) == RNorm(a[1] * b[2], a[2] * b[1])
RLe(a, b)  == a[1] * b[2] <= b[1] * a[2]
RLt(a, b)  == a[1] * b[2] < b[1] * a[2]
RMax(a, b) == IF RLt(a, b) THEN b ELSE a
RHalf(n)   == RNorm(n, 2)
RZero      == RInt(0)

DPoint(x, y) == [m_x |-> x, m_y |-> y]

----------------------------------------------------------------------------
(* srcyuml_class *)

MaxFields       == 2   \* fields of a class, over all visibilities
MaxConstructors == 1   \* constructors of a class, over all visibilities
MaxMethods      == 2   \* methods of a class, over all visibilities

Visibility == {"PUBLIC", "PRIVATE", "PROTECTED"}

Total(m) == Len(m["PUBLIC"]) + Len(m["PRIVATE"]) + Len(m["PROTECTED"])

\* ClassPolicy::ClassData as far as srcyuml_class reads it
FieldData  == {"field"}
CtorData   == {"constructor"}
MethodData == [isPureVirtual : BOOLEAN]

ClassDataSet ==
    {d \in [name         : {"Name"},
            fields       : [Visibility -> SeqsUpTo(FieldData, MaxFields)],
            constructors : [Visibility -> SeqsUpTo(CtorData, MaxConstructors)],
            hasDestructor: BOOLEAN,
            methods      : [Visibility -> SeqsUpTo(MethodData, MaxMethods)]] :
        /\ Total(d.fields) <= MaxFields
        /\ Total(d.constructors) <= MaxConstructors
        /\ Total(d.methods) <= MaxMethods}

NoData ==
    [name          |-> "Name",
     fields        |-> [v \in Visibility |-> <<>>],
     constructors  |-> [v \in Visibility |-> <<>>],
     hasDestructor |-> FALSE,
     methods       |-> [v \in Visibility |-> <<>>]]

any_in(m) == Len(m["PUBLIC"]) # 0 \/ Len(m["PRIVATE"]) # 0 \/ Len(m["PROTECTED"]) # 0

only_public_methods(d) ==
    /\ Len(d.methods["PUBLIC"]) # 0
    /\ d.methods["PRIVATE"] = <<>>
    /\ d.methods["PROTECTED"] = <<>>

\* the loop over data->methods[PUBLIC] that clears is_interface
is_interface(d) ==
    \A i \in 1..Len(d.methods["PUBLIC"]) : d.methods["PUBLIC"][i].isPureVirtual

\* first branch of analyze_data, with a test of has_field added
datatype_rule_fields(hasCtor, hasField, hasMethod) == ~hasCtor /\ ~hasMethod /\ ~hasField

\* first branch of analyze_data
datatype_rule(hasCtor, hasField, hasMethod) == ~hasCtor /\ ~hasMethod

\* second branch of analyze_data, without the test of has_destructor
interface_rule_no_destructor(d, hasCtor, hasField, hasDtor) ==
    /\ ~hasCtor
    /\ ~hasField
    /\ only_public_methods(d)
    /\ is_interface(d)

\* second branch of analyze_data, without the test of only_public_methods
interface_rule_any_visibility(d, hasCtor, hasField, hasDtor) ==
    /\ ~hasCtor
    /\ ~hasField
    /\ ~hasDtor
    /\ is_interface(d)

\* second branch of analyze_data, and the loop inside it
interface_rule(d, hasCtor, hasField, hasDtor) ==
    /\ ~hasCtor
    /\ ~hasField
    /\ ~hasDtor
    /\ only_public_methods(d)
    /\ is_interface(d)

analyze_data ==
    /\ has_field' = any_in(data.fields)
    /\ has_constructor' = any_in(data.constructors)
    /\ has_destructor' = data.hasDestructor
    /\ has_method' = any_in(data.methods)
    /\ type' = IF datatype_rule(has_constructor', has_field', has_method')
               THEN "DATATYPE"
               ELSE IF interface_rule(data, has_constructor', has_field', has_destructor')
               THEN "INTERFACE"
               ELSE type
    /\ analyzed' = TRUE
    /\ UNCHANGED <<data, out, outVars, svgVars>>

\* `out << *field`: the text of one field
field_text(item) == item

\* `out << *function`: the text of one method
method_text(item) == IF item.isPureVirtual THEN "pure virtual method" ELSE "method"

\* the texts of the fields, per visibility
field_texts(d) ==
    [v \in Visibility |-> [i \in 1..Len(d.fields[v]) |-> field_text(d.fields[v][i])]]

\* the texts of the methods, per visibility
method_texts(d) ==
    [v \in Visibility |-> [i \in 1..Len(d.methods[v]) |-> method_text(d.methods[v][i])]]

\* one of the six loops of operator<<: prefix, member, ';' for each member
RECURSIVE write_members(_, _, _)
write_members(prefix, members, i) ==
    IF i > Len(members) THEN <<>>
    ELSE <<<<prefix, members[i], ";">>>> \o write_members(prefix, members, i + 1)

\* operator<< with the PRIVATE and PROTECTED loops of the methods exchanged
write_class_protected_first(d, hasField, hasMethod, t) ==
    <<<<"[">>>>
    \o (IF t = "DATATYPE" THEN <<<<"<<datatype>>;">>>>
        ELSE IF t = "INTERFACE" THEN <<<<"<<interface>>;">>>>
        ELSE IF t = "ABSTRACT" THEN <<<<"<<abstract>>;">>>>
        ELSE <<>>)
    \o <<<<d.name>>>>
    \o (IF hasField \/ hasMethod THEN <<<<"|">>>> ELSE <<>>)
    \o write_members("+ ", field_texts(d)["PUBLIC"], 1)
    \o write_members("- ", field_texts(d)["PRIVATE"], 1)
    \o write_members("# ", field_texts(d)["PROTECTED"], 1)
    \o (IF hasMethod THEN <<<<"|">>>> ELSE <<>>)
    \o write_members("+ ", method_texts(d)["PUBLIC"], 1)
    \o write_members("# ", method_texts(d)["PROTECTED"], 1)
    \o write_members("- ", method_texts(d)["PRIVATE"], 1)
    \o <<<<"]\n">>>>

\* operator<<(std::ostream &, const srcyuml_class &): the tokens written
write_class(d, hasField, hasMethod, t) ==
    <<<<"[">>>>
    \o (IF t = "DATATYPE" THEN <<<<"<<datatype>>;">>>>
        ELSE IF t = "INTERFACE" THEN <<<<"<<interface>>;">>>>
        ELSE IF t = "ABSTRACT" THEN <<<<"<<abstract>>;">>>>
        ELSE <<>>)
    \o <<<<d.name>>>>
    \o (IF hasField \/ hasMethod THEN <<<<"|">>>> ELSE <<>>)
    \o write_members("+ ", field_texts(d)["PUBLIC"], 1)
    \o write_members("- ", field_texts(d)["PRIVATE"], 1)
    \o write_members("# ", field_texts(d)["PROTECTED"], 1)
    \o (IF hasMethod THEN <<<<"|">>>> ELSE <<>>)
    \o write_members("+ ", method_texts(d)["PUBLIC"], 1)
    \o write_members("- ", method_texts(d)["PRIVATE"], 1)
    \o write_members("# ", method_texts(d)["PROTECTED"], 1)
    \o <<<<"]\n">>>>

\* `out << aclass`, called once the class has been analyzed
print_class ==
    /\ analyzed
    /\ out = <<>>
    /\ out' = write_class(data, has_field, has_method, type)
    /\ UNCHANGED <<data, has_field, has_constructor, has_destructor, has_method, type,
                   analyzed, outVars, svgVars>>

\* srcyuml_class(data): every flag false, type NONE
ClassConstructed(d) ==
    /\ data = d
    /\ has_field = FALSE
    /\ has_constructor = FALSE
    /\ has_destructor = FALSE
    /\ has_method = FALSE
    /\ type = "NONE"
    /\ analyzed = FALSE
    /\ out = <<>>

----------------------------------------------------------------------------
(* svg_sugiyama_outputter::output *)

\* class_node_map.insert: std::map keeps the first node inserted for a name
map_insert(m, name, n) ==
    IF \E e \in m : e[1] = name THEN m ELSE m \cup {<<name, n>>}

\* class_node_map.find followed by the guarded assignment.  When the name is
\* not found the local `ogdf::node lhs, rhs;` is read without ever having
\* been written: any pointer value, a node of g or not.
lookup(m, name, nodeCount) ==
    IF \E e \in m : e[1] = name
    THEN {e[2] : e \in {f \in m : f[1] = name}}
    ELSE (1..nodeCount) \cup {Wild}

\* merge_kind with a first branch that lets any chain kind replace DEPENDENCY
merge_kind_over_dependency(stored, incoming) ==
    IF stored = "DEPENDENCY"
         /\ incoming \in {"ASSOCIATION", "BIDIRECTIONAL", "AGGREGATION", "COMPOSITION"}
    THEN incoming
    ELSE IF stored = "ASSOCIATION"
         /\ incoming \in {"BIDIRECTIONAL", "AGGREGATION", "COMPOSITION"}
    THEN incoming
    ELSE IF stored = "BIDIRECTIONAL" /\ incoming \in {"AGGREGATION", "COMPOSITION"}
    THEN incoming
    ELSE IF stored = "AGGREGATION" /\ incoming = "COMPOSITION"
    THEN incoming
    ELSE stored

\* merge_kind without the BIDIRECTIONAL branch of the chain
merge_kind_no_bidirectional(stored, incoming) ==
    IF stored = "ASSOCIATION"
         /\ incoming \in {"BIDIRECTIONAL", "AGGREGATION", "COMPOSITION"}
    THEN incoming
    ELSE IF stored = "AGGREGATION" /\ incoming = "COMPOSITION"
    THEN incoming
    ELSE stored

\* merge_kind whose BIDIRECTIONAL branch also accepts ASSOCIATION
merge_kind_downgrade(stored, incoming) ==
    IF stored = "ASSOCIATION"
         /\ incoming \in {"BIDIRECTIONAL", "AGGREGATION", "COMPOSITION"}
    THEN incoming
    ELSE IF stored = "BIDIRECTIONAL"
         /\ incoming \in {"ASSOCIATION", "AGGREGATION", "COMPOSITION"}
    THEN incoming
    ELSE IF stored = "AGGREGATION" /\ incoming = "COMPOSITION"
    THEN incoming
    ELSE stored

\* the if / else-if chain that replaces the stored kind of an existing entry
merge_kind(stored, incoming) ==
    IF stored = "ASSOCIATION"
         /\ incoming \in {"BIDIRECTIONAL", "AGGREGATION", "COMPOSITION"}
    THEN incoming
    ELSE IF stored = "BIDIRECTIONAL" /\ incoming \in {"AGGREGATION", "COMPOSITION"}
    THEN incoming
    ELSE IF stored = "AGGREGATION" /\ incoming = "COMPOSITION"
    THEN incoming
    ELSE stored

\* edge_type_map.find(pair(lhs, rhs)) then insert or replace
merge_entry(m, lhs, rhs, rtype) ==
    IF \E e \in m : e.key = <<lhs, rhs>>
    THEN {IF e.key = <<lhs, rhs>>
          THEN [key |-> e.key, type |-> merge_kind(e.type, rtype)]
          ELSE e : e \in m}
    ELSE m \cup {[key |-> <<lhs, rhs>>, type |-> rtype]}

\* the switch that picks the stroke of an edge
stroke_of(rtype) ==
    IF rtype \in {"DEPENDENCY", "GENERALIZATION", "REALIZATION"} THEN "Dash" ELSE "Solid"

\* iteration order of the multimap: by key
KeyLess(a, b) == a[1] < b[1] \/ (a[1] = b[1] /\ a[2] < b[2])

RECURSIVE SortedEntries(_)
SortedEntries(m) ==
    IF m = {} THEN <<>>
    ELSE LET first == CHOOSE e \in m : \A f \in m : f = e \/ KeyLess(e.key, f.key)
         IN <<first>> \o SortedEntries(m \ {first})

new_edges(m) ==
    [i \in 1..Cardinality(m) |->
        [source |-> SortedEntries(m)[i].key[1],
         target |-> SortedEntries(m)[i].key[2],
         strokeType |-> stroke_of(SortedEntries(m)[i].type),
         strokeWidth |-> 2]]

\* SvgPrinter::draw: one svg root, one group per node of the graph, one
\* group per edge; doc.save(os); return true
draw_document(nodes, edges) ==
    [svg |-> 1, nodeGroups |-> Len(nodes), edgeGroups |-> Len(edges)]

draw_result(streamOk) == TRUE

\* output(): `if(!drawSVG(...)) std::cout << "Error Write"` ... `return true`
output_result(drawOk) == TRUE

NoDoc == [svg |-> 0, nodeGroups |-> 0, edgeGroups |-> 0]

\* entry of output(): fresh locals, the member graph g is left as it is
output_begin(cs, rs) ==
    /\ pc \in {"ready", "done"}
    /\ pc' = "nodes"
    /\ ncalls' = ncalls + 1
    /\ classes' = cs
    /\ relationships' = rs
    /\ idx' = 1
    /\ class_node_map' = {}
    /\ edge_type_map' = {}
    /\ doc' = NoDoc
    /\ UNCHANGED <<clsVars, svgVars, labels, g_nodes, g_edges, stream_ok, ret>>

\* h = num_lines * 50, the sizing left in the comment
node_height_fifty(num_lines) == RMul(RInt(num_lines), RInt(50))

\* h = num_lines * 1.3 * 10
node_height(num_lines) == RMul(RMul(RInt(num_lines), RNorm(13, 10)), RInt(10))

\* w = longest_line * 10, the sizing left in the comment
node_width_ten(longest_line) == RMul(RInt(longest_line), RInt(10))

\* w = longest_line * .75 * 10
node_width(longest_line) == RMul(RMul(RInt(longest_line), RNorm(75, 100)), RInt(10))

\* g.newNode() and the attributes the class loop gives the node
new_node(name, metrics) ==
    [label  |-> name,
     height |-> node_height(metrics.num_lines),
     width  |-> node_width(metrics.longest_line)]

\* one iteration of the class loop
NewNode ==
    /\ pc = "nodes"
    /\ idx <= Len(classes)
    /\ g_nodes' = Append(g_nodes, new_node(classes[idx], labels[classes[idx]]))
    /\ class_node_map' = map_insert(class_node_map, classes[idx], Len(g_nodes) + 1)
    /\ idx' = idx + 1
    /\ UNCHANGED <<clsVars, svgVars, labels, pc, ncalls, classes, relationships, edge_type_map, g_edges,
                   doc, stream_ok, ret>>

NodesDone ==
    /\ pc = "nodes"
    /\ idx > Len(classes)
    /\ pc' = "rels"
    /\ idx' = 1
    /\ UNCHANGED <<clsVars, svgVars, labels, ncalls, classes, relationships, class_node_map, edge_type_map,
                   g_nodes, g_edges, doc, stream_ok, ret>>

\* one iteration of the relationship loop
MergeRelationship ==
    /\ pc = "rels"
    /\ idx <= Len(relationships)
    /\ \E lhs \in lookup(class_node_map, relationships[idx].source, Len(g_nodes)) :
       \E rhs \in lookup(class_node_map, relationships[idx].destination, Len(g_nodes)) :
          edge_type_map' = merge_entry(edge_type_map, lhs, rhs, relationships[idx].type)
    /\ idx' = idx + 1
    /\ UNCHANGED <<clsVars, svgVars, labels, pc, ncalls, classes, relationships, class_node_map,
                   g_nodes, g_edges, doc, stream_ok, ret>>

RelsDone ==
    /\ pc = "rels"
    /\ idx > Len(relationships)
    /\ pc' = "edges"
    /\ UNCHANGED <<clsVars, svgVars, labels, ncalls, classes, relationships, idx, class_node_map, edge_type_map,
                   g_nodes, g_edges, doc, stream_ok, ret>>

HasWildKey(m) == \E e \in m : e.key[1] = Wild \/ e.key[2] = Wild

\* the loop that adds one graph edge per entry of edge_type_map
AddEdges ==
    /\ pc = "edges"
    /\ g_edges' = g_edges \o new_edges(edge_type_map)
    /\ pc' = "draw"
    /\ UNCHANGED <<clsVars, svgVars, labels, ncalls, classes, relationships, idx, class_node_map, edge_type_map,
                   g_nodes, doc, stream_ok, ret>>

\* g.newEdge on a pointer that is no node of g may also end the process
AddEdgesFault ==
    /\ pc = "edges"
    /\ HasWildKey(edge_type_map)
    /\ pc' = "crashed"
    /\ UNCHANGED <<clsVars, svgVars, labels, ncalls, classes, relationships, idx, class_node_map, edge_type_map,
                   g_nodes, g_edges, doc, stream_ok, ret>>

\* layout, drawSVG(ga, out, settings) and the return statement
DrawSVG ==
    /\ pc = "draw"
    /\ \E ok \in BOOLEAN :
          /\ stream_ok' = ok
          /\ doc' = draw_document(g_nodes, g_edges)
          /\ ret' = output_result(draw_result(ok))
    /\ pc' = "done"
    /\ UNCHANGED <<clsVars, svgVars, labels, ncalls, classes, relationships, idx, class_node_map, edge_type_map,
                   g_nodes, g_edges>>

\* what generate_label reports for the classes when nothing else is chosen
DefaultLabels ==
    [n \in ClassNames |-> IF n = "A" THEN [num_lines |-> 3, longest_line |-> 10]
                                     ELSE [num_lines |-> 1, longest_line |-> 1]]

\* the object after its constructor, with the labels its classes will get
OutputConstructedWith(l) ==
    /\ labels = l
    /\ pc = "ready"
    /\ ncalls = 0
    /\ classes = <<>>
    /\ relationships = <<>>
    /\ idx = 1
    /\ class_node_map = {}
    /\ edge_type_map = {}
    /\ g_nodes = <<>>
    /\ g_edges = <<>>
    /\ doc = NoDoc
    /\ stream_ok = TRUE
    /\ ret = FALSE

OutputConstructed == OutputConstructedWith(DefaultLabels)

----------------------------------------------------------------------------
(* SvgPrinter *)

MaxEdges == 2    \* edges of the drawn graph
MaxBends == 1    \* bend points of one edge
MaxPathBends == 2    \* bend points of one edge with a winding path

ArrowTypes == {"Undefined", "None", "Last", "First", "Both"}

\* m_attr.x(v), y(v), width(v), height(v)
NodeBox(x, y, w, h) == [x |-> x, y |-> y, width |-> w, height |-> h]

\* the layouts drawn from: node 1 at the origin, node 2 on top of it, right
\* of it, below it, larger and diagonal, or close beside it
Layouts ==
    {<<NodeBox(0, 0, 20, 10), n2>> :
        n2 \in {NodeBox(0, 0, 20, 10), NodeBox(60, 0, 20, 10), NodeBox(0, 50, 20, 10),
                NodeBox(60, 50, 80, 40), NodeBox(15, 0, 8, 10)}}

BendPoints == {DPoint(RInt(30), RInt(25))}

\* bend points for paths that wind around the nodes: beside node 2 of the
\* second layout, between the nodes, beside node 1
PathBendPoints ==
    {DPoint(RInt(60), RInt(10)), DPoint(RInt(30), RInt(25)), DPoint(RInt(0), RInt(10))}

\* GraphAttributes as far as drawEdges reads it; arrowType is the arrow type
\* of the edges (meaningful only with the edgeArrow attribute)
AttrSet ==
    {a \in [edgeGraphics : {TRUE}, edgeStyle : {TRUE}, edgeArrow : BOOLEAN,
            directed : BOOLEAN, arrowType : ArrowTypes, nodes : Layouts,
            numberOfEdges : 0..MaxEdges] :
        ~a.edgeArrow => a.arrowType = "Undefined"}

NoAttr == [edgeGraphics |-> TRUE, edgeStyle |-> TRUE, edgeArrow |-> FALSE,
           directed |-> TRUE, arrowType |-> "Undefined", nodes |-> <<>>,
           numberOfEdges |-> 0]

\* the edges a graph with these attributes can hold
EdgeSet(attr) ==
    [source : 1..2, target : 1..2, bends : SeqsUpTo(BendPoints, MaxBends),
     arrowType : {attr.arrowType}, strokeWidth : {2}]

\* the same edges with longer bend lists
BentEdgeSet(attr) ==
    [source : 1..2, target : 1..2, bends : SeqsUpTo(PathBendPoints, MaxPathBends),
     arrowType : {attr.arrowType}, strokeWidth : {2}]

NoEdge == [source |-> 1, target |-> 1, bends |-> <<>>, arrowType |-> "Undefined",
           strokeWidth |-> 2]

opposite(e, v) == IF v = e.source THEN e.target ELSE e.source

getArrowSize(attr, e, v) ==
    IF attr.edgeArrow \/ attr.directed
    THEN LET minSize == RInt((IF attr.edgeStyle THEN e.strokeWidth ELSE 1) * 3)
             nv == attr.nodes[v]
             nw == attr.nodes[opposite(e, v)]
         IN  RMax(minSize, RNorm(nv.width + nv.height + nw.width + nw.height, 16))
    ELSE RZero

isCoveredBy(attr, point, e, v) ==
    LET arrowSize == getArrowSize(attr, e, v)
        n == attr.nodes[v]
    IN  /\ RLe(RSub(RSub(RInt(n.x), RHalf(n.width)), arrowSize), point.m_x)
        /\ RLe(point.m_x, RAdd(RAdd(RInt(n.x), RHalf(n.width)), arrowSize))
        /\ RLe(RSub(RSub(RInt(n.y), RHalf(n.height)), arrowSize), point.m_y)
        /\ RLe(point.m_y, RAdd(RAdd(RInt(n.y), RHalf(n.height)), arrowSize))

\* drawArrowHead: the value it leaves in its reference parameter `end`
arrow_end(attr, start, end, v, e) ==
    LET dx == RSub(end.m_x, start.m_x)
        dy == RSub(end.m_y, start.m_y)
        size == getArrowSize(attr, e, v)
        n == attr.nodes[v]
    IN  IF dx = RZero
        THEN LET sign == IF RLt(RZero, dy) THEN 1 ELSE -1
                 y == RSub(RInt(n.y), RMul(RHalf(n.height), RInt(sign)))
             IN  DPoint(end.m_x, RSub(y, RMul(RInt(sign), size)))
        ELSE LET slope == RDiv(dy, dx)
                 sign == IF RLt(RZero, dx) THEN 1 ELSE -1
                 x == RSub(RInt(n.x), RMul(RHalf(n.width), RInt(sign)))
                 y == RAdd(start.m_y, RMul(RSub(x, start.m_x), slope))
             IN  IF isCoveredBy(attr, DPoint(x, y), e, v)
                 THEN DPoint(x, y)
                 ELSE LET sign2 == IF RLt(RZero, dy) THEN 1 ELSE -1
                          y2 == RSub(RInt(n.y), RMul(RHalf(n.height), RInt(sign2)))
                          x2 == RAdd(start.m_x, RDiv(RSub(y2, start.m_y), slope))
                      IN  DPoint(x2, y2)

\* drawArrowHead: the tip of the polygon, (end.m_x, y) in the branch dx == 0
\* and (x, y) in the other
arrow_tip(attr, start, end, v, e) ==
    LET dx == RSub(end.m_x, start.m_x)
        dy == RSub(end.m_y, start.m_y)
        n == attr.nodes[v]
    IN  IF dx = RZero
        THEN LET sign == IF RLt(RZero, dy) THEN 1 ELSE -1
             IN  DPoint(end.m_x, RSub(RInt(n.y), RMul(RHalf(n.height), RInt(sign))))
        ELSE arrow_end(attr, start, end, v, e)

\* size/4 with the width of the whole base in its place
head_half_width_doubled(size) == RDiv(size, RInt(2))

\* size/4, the distance of the two base corners from the base centre
head_half_width(size) == RDiv(size, RInt(4))

\* drawArrowHead: the polygon {tip, corner 2, corner 3}.  Corner i is
\* tip + d_i / sqrt(len2): the division by `length` is kept symbolic, so the
\* corners are exact for every direction (len2 is 1 in the branch dx == 0).
arrow_head(attr, start, end, v, e) ==
    LET dx == RSub(end.m_x, start.m_x)
        dy == RSub(end.m_y, start.m_y)
        size == getArrowSize(attr, e, v)
        tip == arrow_tip(attr, start, end, v, e)
        half == head_half_width(size)
    IN  IF dx = RZero
        THEN LET sign == IF RLt(RZero, dy) THEN 1 ELSE -1
                 back == RSub(RZero, RMul(size, RInt(sign)))
             IN  [start |-> start, end |-> end, v |-> v, tip |-> tip,
                  len2 |-> RInt(1),
                  d2 |-> DPoint(RSub(RZero, half), back),
                  d3 |-> DPoint(half, back)]
        ELSE LET dx2 == RSub(tip.m_x, start.m_x)
                 dy2 == RSub(tip.m_y, start.m_y)
                 mx == RSub(RZero, RMul(size, dx2))
                 my == RSub(RZero, RMul(size, dy2))
             IN  [start |-> start, end |-> end, v |-> v, tip |-> tip,
                  len2 |-> RAdd(RMul(dx2, dx2), RMul(dy2, dy2)),
                  d2 |-> DPoint(RSub(mx, RMul(half, dy2)), RAdd(my, RMul(half, dx2))),
                  d3 |-> DPoint(RAdd(mx, RMul(half, dy2)), RSub(my, RMul(half, dx2)))]

\* the switch on m_attr.arrowType(e)
drawSourceArrow(attr, e) == attr.edgeArrow /\ e.arrowType \in {"Both", "First"}

drawTargetArrow(attr, e) ==
    /\ attr.edgeArrow
    /\ \/ e.arrowType \in {"Last", "Both"}
       \/ e.arrowType = "Undefined" /\ attr.directed

\* m_attr.bends(e) with the centre of the source pushed to the front and the
\* centre of the target pushed to the back
edge_path(attr, e) ==
    <<DPoint(RInt(attr.nodes[e.source].x), RInt(attr.nodes[e.source].y))>>
    \o e.bends
    \o <<DPoint(RInt(attr.nodes[e.target].x), RInt(attr.nodes[e.target].y))>>

\* one pass of the loop body of drawEdge over the segment (path[k], path[k+1])
trim_step(attr, e, acc, a, b) ==
    LET s == e.source
        t == e.target
        leaving == isCoveredBy(attr, a, e, s) /\ ~isCoveredBy(attr, b, e, s)
        srcArrow == leaving /\ ~acc.drawSegment /\ drawSourceArrow(attr, e)
        p1 == IF srcArrow THEN arrow_end(attr, b, a, s, e) ELSE a
        drawSegment == acc.drawSegment \/ leaving
        finished == ~isCoveredBy(attr, p1, e, t) /\ isCoveredBy(attr, b, e, t)
        tgtArrow == finished /\ drawTargetArrow(attr, e)
        p2 == IF tgtArrow THEN arrow_end(attr, p1, b, t, e) ELSE b
    IN  [drawSegment |-> drawSegment,
         finished    |-> finished,
         arrowHeads  |-> acc.arrowHeads + (IF srcArrow THEN 1 ELSE 0)
                                        + (IF tgtArrow THEN 1 ELSE 0),
         heads       |-> acc.heads
                            \o (IF srcArrow THEN <<arrow_head(attr, b, a, s, e)>> ELSE <<>>)
                            \o (IF tgtArrow THEN <<arrow_head(attr, p1, b, t, e)>> ELSE <<>>),
         points      |-> acc.points \o (IF drawSegment THEN <<p1>> ELSE <<>>)
                                    \o (IF finished THEN <<p2>> ELSE <<>>)]

\* the loop of drawEdge without `&& !finished` in its condition
RECURSIVE trim_loop_to_end(_, _, _, _, _)
trim_loop_to_end(attr, e, path, k, acc) ==
    IF k + 1 > Len(path)
    THEN acc
    ELSE trim_loop_to_end(attr, e, path, k + 1,
                          trim_step(attr, e, acc, path[k], path[k + 1]))

\* for(it = path.begin(); it.succ().valid() && !finished; it++)
RECURSIVE trim_loop(_, _, _, _, _)
trim_loop(attr, e, path, k, acc) ==
    IF k + 1 > Len(path) \/ acc.finished
    THEN acc
    ELSE trim_loop(attr, e, path, k + 1, trim_step(attr, e, acc, path[k], path[k + 1]))

trim(attr, e) ==
    trim_loop(attr, e, edge_path(attr, e), 1,
              [drawSegment |-> FALSE, finished |-> FALSE, arrowHeads |-> 0,
               heads |-> <<>>, points |-> <<>>])

\* `if(points.size() < 2)`: the edge is logged instead of drawn
too_few_points(points) == Len(points) < 2

\* SVGSettings(): the defaults
DefaultSettings == [curviness |-> RZero, bezierInterpolation |-> FALSE]

\* the settings drawn from
SettingsSet == [curviness : {RZero, RNorm(1, 2), RInt(1)}, bezierInterpolation : BOOLEAN]

\* drawCurve with the tests of the bezier flag exchanged
curve_mode_swapped(settings, points) ==
    IF Len(points) = 2 THEN "drawLine"
    ELSE IF settings.curviness = RZero THEN "drawLines"
    ELSE IF ~settings.bezierInterpolation THEN "drawBezierPath"
    ELSE "drawRoundPath"

\* drawCurve: the function that writes the path of the point list
curve_mode(settings, points) ==
    IF Len(points) = 2 THEN "drawLine"
    ELSE IF settings.curviness = RZero THEN "drawLines"
    ELSE IF settings.bezierInterpolation THEN "drawBezierPath"
    ELSE "drawRoundPath"

\* what drawEdge appends below the <g> of edge e, given the trimmed list
edge_group(settings, r) ==
    [points   |-> Len(r.points),
     polygons |-> r.arrowHeads,
     arrowHeads |-> r.heads,
     paths    |-> IF too_few_points(r.points) THEN 0 ELSE 1,
     curve    |-> IF too_few_points(r.points) THEN "none"
                  ELSE curve_mode(settings, r.points)]

\* drawEdges stopping at the first edge that cannot be drawn
edges_continue_abort(attr, visited, points) ==
    IF too_few_points(points) THEN "done"
    ELSE IF visited < attr.numberOfEdges THEN "edges" ELSE "done"

\* for(edge e : m_attr.constGraph().edges): the loop goes on to the next edge
edges_continue(attr, visited, points) ==
    IF visited < attr.numberOfEdges THEN "edges" ELSE "done"

\* entry of drawEdges
drawEdges ==
    /\ svg_pc = "start"
    /\ svg_pc' = IF m_attr.edgeGraphics /\ m_attr.numberOfEdges > 0 THEN "edges" ELSE "done"
    /\ UNCHANGED <<m_attr, m_settings, e_idx, cur_edge, cur_points, xml, log, outVars, clsVars>>

\* drawEdge(xmlNode, e) for an edge e out of `edges`
drawEdgeOutOf(edges) ==
    /\ svg_pc = "edges"
    /\ \E e \in edges :
       \E r \in {trim(m_attr, e)} :
          /\ cur_edge' = e
          /\ cur_points' = r.points
          /\ xml' = Append(xml, edge_group(m_settings, r))
          /\ log' = IF too_few_points(r.points) THEN Append(log, e_idx + 1) ELSE log
          /\ svg_pc' = edges_continue(m_attr, e_idx + 1, r.points)
    /\ e_idx' = e_idx + 1
    /\ UNCHANGED <<m_attr, m_settings, outVars, clsVars>>

\* one iteration of drawEdges: drawEdge(xmlNode, e)
drawEdge == drawEdgeOutOf(EdgeSet(m_attr))

\* one iteration of drawEdges on an edge with a longer bend list
drawBentEdge == drawEdgeOutOf(BentEdgeSet(m_attr))

\* SvgPrinter(attr, settings) before draw() is called
PrinterConstructedWith(attr, settings) ==
    /\ m_attr = attr
    /\ m_settings = settings
    /\ svg_pc = "start"
    /\ e_idx = 0
    /\ cur_edge = NoEdge
    /\ cur_points = <<>>
    /\ xml = <<>>
    /\ log = <<>>

\* the printer output() builds: `new ogdf::GraphIO::SVGSettings()`
PrinterConstructed(attr) == PrinterConstructedWith(attr, DefaultSettings)

----------------------------------------------------------------------------
(* Initial states *)

Init == OutputConstructed /\ ClassConstructed(NoData) /\ PrinterConstructed(NoAttr)

InitClass ==
    /\ OutputConstructed
    /\ \E d \in ClassDataSet : ClassConstructed(d)
    /\ PrinterConstructed(NoAttr)

InitSvg ==
    /\ OutputConstructed
    /\ ClassConstructed(NoData)
    /\ \E a \in AttrSet : PrinterConstructed(a)

NextClass ==
    \/ analyze_data
    \/ print_class

SpecClass == InitClass /\ [][NextClass]_vars

NextSvg ==
    \/ drawEdges
    \/ drawEdge

SpecSvg == InitSvg /\ [][NextSvg]_vars

\* one edge drawn under any settings
InitCurve ==
    /\ OutputConstructed
    /\ ClassConstructed(NoData)
    /\ \E a \in {b \in AttrSet : b.numberOfEdges = 1} :
       \E st \in SettingsSet : PrinterConstructedWith(a, st)

SpecCurve == InitCurve /\ [][NextSvg]_vars

\* one edge with a winding path drawn under the default settings
InitPath ==
    /\ OutputConstructed
    /\ ClassConstructed(NoData)
    /\ \E a \in {b \in AttrSet : b.numberOfEdges = 1} : PrinterConstructed(a)

NextPath ==
    \/ drawEdges
    \/ drawBentEdge

SpecPath == InitPath /\ [][NextPath]_vars

Record(s, d, t) == [source |-> s, destination |-> d, type |-> t]

----------------------------------------------------------------------------
(* Merge specification: one call, every record on the class pair (A, B) *)

PairRecords == {Record("A", "B", t) : t \in Kinds}

OutputPair ==
    /\ ncalls = 0
    /\ \E rs \in SeqsUpTo(PairRecords, MaxRecs) : output_begin(<<"A", "B">>, rs)

NextMerge ==
    \/ OutputPair
    \/ NewNode
    \/ NodesDone
    \/ MergeRelationship
    \/ RelsDone
    \/ AddEdges
    \/ DrawSVG

SpecMerge == Init /\ [][NextMerge]_vars

----------------------------------------------------------------------------
(* General specification: one call, any classes, any records *)

AllRecords == {Record(s, d, t) : s \in ClassNames, d \in ClassNames, t \in Kinds}

\* the class vectors a call can be given
ClassVectors == {<<"A">>, <<"B">>, <<"A", "B">>}

OutputOnce ==
    /\ ncalls = 0
    /\ \E cs \in ClassVectors :
       \E rs \in SeqsUpTo(AllRecords, MaxRels) : output_begin(cs, rs)

Next ==
    \/ OutputOnce
    \/ NewNode
    \/ NodesDone
    \/ MergeRelationship
    \/ RelsDone
    \/ AddEdges
    \/ AddEdgesFault
    \/ DrawSVG

Spec == Init /\ [][Next]_vars

----------------------------------------------------------------------------
(* Repeated calls on one svg_sugiyama_outputter object *)

OutputAgain ==
    /\ ncalls < MaxCalls
    /\ \E cs \in ClassVectors :
       \E rs \in SeqsUpTo(AllRecords, MaxCallRels) : output_begin(cs, rs)

NextCalls ==
    \/ OutputAgain
    \/ NewNode
    \/ NodesDone
    \/ MergeRelationship
    \/ RelsDone
    \/ AddEdges
    \/ AddEdgesFault
    \/ DrawSVG

SpecCalls == Init /\ [][NextCalls]_vars

----------------------------------------------------------------------------
(* Node sizing: one call without relationships, any label metrics *)

MaxLines   == 3    \* lines generate_label counts for one class
MaxLineLen == 10   \* characters of the longest line of one label

LabelMetrics == [num_lines : 0..MaxLines, longest_line : 0..MaxLineLen]

InitSize ==
    /\ \E l \in [ClassNames -> LabelMetrics] : OutputConstructedWith(l)
    /\ ClassConstructed(NoData)
    /\ PrinterConstructed(NoAttr)

OutputSized ==
    /\ ncalls = 0
    /\ \E cs \in ClassVectors : output_begin(cs, <<>>)

NextSize ==
    \/ OutputSized
    \/ NewNode
    \/ NodesDone
    \/ RelsDone
    \/ AddEdges
    \/ DrawSVG

SpecSize == InitSize /\ [][NextSize]_vars

----------------------------------------------------------------------------
(* Claims about output() *)

\* the kinds of a record list, in processing order
KindsOf(rs) == [i \in 1..Len(rs) |-> rs[i].type]

\* the kind the loop leaves for one pair after processing kinds ks in order
RECURSIVE resolve_from(_, _, _)
resolve_from(stored, ks, i) ==
    IF i > Len(ks) THEN stored ELSE resolve_from(merge_kind(stored, ks[i]), ks, i + 1)

Resolve(ks) == resolve_from(ks[1], ks, 2)

Perms(n) == {p \in [1..n -> 1..n] : \A i, j \in 1..n : i # j => p[i] # p[j]}

Permuted(ks, p) == [i \in 1..Len(ks) |-> ks[p[i]]]

LoopFinished == pc \in {"edges", "draw", "done"}

\* the kind stored for the node pair (lhs, rhs); "none" when the pair has no entry
StoredKind(lhs, rhs) ==
    IF \E e \in edge_type_map : e.key = <<lhs, rhs>>
    THEN (CHOOSE e \in edge_type_map : e.key = <<lhs, rhs>>).type
    ELSE "none"

Chain == {"ASSOCIATION", "BIDIRECTIONAL", "AGGREGATION", "COMPOSITION"}

ThreeKinds == {"ASSOCIATION", "AGGREGATION", "BIDIRECTIONAL"}

\* C1: when the records of the pair (A, B) are Association, Aggregation and
\* Bidirectional, one of each, in any of the 6 orders, the merge loop leaves
\* exactly one entry for the pair and its kind is AGGREGATION.
C1_ThreeKindsGiveAggregation ==
    (/\ LoopFinished
     /\ Len(relationships) = 3
     /\ {relationships[i].type : i \in 1..3} = ThreeKinds)
    => edge_type_map = {[key |-> <<1, 2>>, type |-> "AGGREGATION"]}

\* C1 witness: the order Bidirectional, Aggregation, Association was processed
\* (an upgrade followed by a record that must not replace it).
C1_Witness ==
    /\ pc = "done"
    /\ KindsOf(relationships) = <<"BIDIRECTIONAL", "AGGREGATION", "ASSOCIATION">>
    /\ StoredKind(1, 2) = "AGGREGATION"

\* C3 as stated: for every record list on one pair, over all seven kinds,
\* every processing order of the same records gives the kind the loop stored.
C3_OrderIndependentAllKinds ==
    (LoopFinished /\ Len(relationships) > 0)
    => \A p \in Perms(Len(relationships)) :
          Resolve(Permuted(KindsOf(relationships), p)) = StoredKind(1, 2)

\* C3 amended: for every record list on one pair whose kinds all lie in the
\* chain Association, Bidirectional, Aggregation, Composition, every
\* processing order of the same records gives the kind the loop stored.
C3_OrderIndependentChain ==
    (/\ LoopFinished
     /\ Len(relationships) > 0
     /\ \A i \in 1..Len(relationships) : relationships[i].type \in Chain)
    => \A p \in Perms(Len(relationships)) :
          Resolve(Permuted(KindsOf(relationships), p)) = StoredKind(1, 2)

\* C3 witness: three chain kinds, the highest one in the middle, were merged.
C3_Witness ==
    /\ pc = "done"
    /\ KindsOf(relationships) = <<"BIDIRECTIONAL", "COMPOSITION", "ASSOCIATION">>
    /\ StoredKind(1, 2) = "COMPOSITION"

\* the node class_node_map holds for a name
NodeOf(name) == (CHOOSE e \in class_node_map : e[1] = name)[2]

Known(name) == \E e \in class_node_map : e[1] = name

Resolvable(r) == Known(r.source) /\ Known(r.destination)

\* C2: after the merge loop, no two entries of the merge map join the same
\* unordered pair of nodes, and the call adds no two edges between the same
\* unordered pair (here for calls all of whose records name known classes).
C2_OneEntryPerUnorderedPair ==
    (/\ LoopFinished
     /\ \A i \in 1..Len(relationships) : Resolvable(relationships[i]))
    => \A e, f \in edge_type_map :
          {e.key[1], e.key[2]} = {f.key[1], f.key[2]} => e = f

\* C4: every entry of the merge map comes from a processed record both of
\* whose classes are in class_node_map, and joins exactly the nodes of those
\* classes: a record naming an absent class adds no entry.
C4_AbsentClassRecordDropped ==
    (pc \in {"rels", "edges", "draw", "done"})
    => \A e \in edge_type_map :
          \E i \in 1..Len(relationships) :
             /\ pc = "rels" => i < idx
             /\ Resolvable(relationships[i])
             /\ e.key = <<NodeOf(relationships[i].source),
                          NodeOf(relationships[i].destination)>>

\* C9: the document of a finished call has one svg root and as many node
\* groups as classes were passed to that call.
C9_NodeGroupsEqualClassCount ==
    pc = "done" => (doc.svg = 1 /\ doc.nodeGroups = Len(classes))

\* C10: output returns true only when the document was written.
C10_TrueOnlyWhenWritten ==
    pc = "done" => (ret = TRUE => stream_ok)

----------------------------------------------------------------------------
(* Claims about srcyuml_class::analyze_data *)

NoConstructor(d) == \A v \in Visibility : d.constructors[v] = <<>>
NoMethod(d)      == \A v \in Visibility : d.methods[v] = <<>>
NoField(d)       == \A v \in Visibility : d.fields[v] = <<>>

\* C5: a class record with no constructor and no method in any visibility is
\* typed DATATYPE by analyze_data, whatever its fields and its destructor flag.
C5_NoConstructorNoMethodIsDatatype ==
    (analyzed /\ NoConstructor(data) /\ NoMethod(data)) => type = "DATATYPE"

\* C5 witness: a record with a field and a destructor, and nothing else, was
\* analyzed and typed DATATYPE.
C5_Witness ==
    /\ analyzed
    /\ NoConstructor(data) /\ NoMethod(data)
    /\ ~NoField(data) /\ data.hasDestructor
    /\ type = "DATATYPE"

\* the conditions of the Interface rule, read off the class record
InterfaceConditions(d) ==
    /\ NoConstructor(d)
    /\ NoField(d)
    /\ ~d.hasDestructor
    /\ Len(d.methods["PUBLIC"]) >= 1
    /\ Len(d.methods["PRIVATE"]) = 0
    /\ Len(d.methods["PROTECTED"]) = 0
    /\ \A i \in 1..Len(d.methods["PUBLIC"]) : d.methods["PUBLIC"][i].isPureVirtual

\* C6: analyze_data types a class record INTERFACE exactly when it has no
\* constructor, no field, no destructor, at least one public method, no
\* private or protected method, and only pure-virtual public methods.
C6_InterfaceExactlyWhenConditionsHold ==
    analyzed => (type = "INTERFACE" <=> InterfaceConditions(data))

\* C6 witness: a record with two public pure-virtual methods was typed INTERFACE.
C6_Witness ==
    /\ analyzed
    /\ Len(data.methods["PUBLIC"]) = 2
    /\ InterfaceConditions(data)
    /\ type = "INTERFACE"

----------------------------------------------------------------------------
(* Claims about SvgPrinter::drawEdges and drawEdge *)

BoxesOverlap(a, b) ==
    /\ 2 * Abs(a.x - b.x) < a.width + b.width
    /\ 2 * Abs(a.y - b.y) < a.height + b.height

\* the point is at least the clearance of (e, v) away from the rectangle of v
ClearOf(attr, point, e, v) ==
    LET c == getArrowSize(attr, e, v)
        n == attr.nodes[v]
    IN  \/ RLe(point.m_x, RSub(RSub(RInt(n.x), RHalf(n.width)), c))
        \/ RLe(RAdd(RAdd(RInt(n.x), RHalf(n.width)), c), point.m_x)
        \/ RLe(point.m_y, RSub(RSub(RInt(n.y), RHalf(n.height)), c))
        \/ RLe(RAdd(RAdd(RInt(n.y), RHalf(n.height)), c), point.m_y)

\* the last drawEdge call handed its point list to drawCurve
CurveDrawn == e_idx > 0 /\ xml[e_idx].paths = 1

\* C7: when drawEdge hands the points of a straight edge between two
\* non-overlapping node boxes to drawCurve, the first and the last point are
\* each at least the clearance away from the source and the target rectangle.
C7_EndpointsClearOfNodes ==
    (/\ CurveDrawn
     /\ cur_edge.bends = <<>>
     /\ ~BoxesOverlap(m_attr.nodes[cur_edge.source], m_attr.nodes[cur_edge.target]))
    => \A p \in {cur_points[1], cur_points[Len(cur_points)]} :
          /\ ClearOf(m_attr, p, cur_edge, cur_edge.source)
          /\ ClearOf(m_attr, p, cur_edge, cur_edge.target)

LogCount(i) == Cardinality({j \in 1..Len(log) : log[j] = i})

\* C8: every edge drawEdges has visited whose trimmed point list has fewer than
\* two points has no path and exactly one diagnostic, every other visited edge
\* has one path and no diagnostic, and drawEdges ends only after it has
\* visited every edge of the graph; an edge without bends whose source and
\* target centres coincide is among the skipped ones.
C8_DegenerateEdgeSkippedOthersDrawn ==
    /\ Len(xml) = e_idx
    /\ \A i \in 1..Len(xml) :
          /\ xml[i].points < 2 => (xml[i].paths = 0 /\ LogCount(i) = 1)
          /\ xml[i].points >= 2 => (xml[i].paths = 1 /\ LogCount(i) = 0)
    /\ svg_pc = "done" => e_idx = m_attr.numberOfEdges
    /\ (/\ e_idx > 0
        /\ cur_edge.bends = <<>>
        /\ m_attr.nodes[cur_edge.source].x = m_attr.nodes[cur_edge.target].x
        /\ m_attr.nodes[cur_edge.source].y = m_attr.nodes[cur_edge.target].y)
       => (xml[e_idx].paths = 0 /\ LogCount(e_idx) = 1)

\* C8 witness: a graph of two edges was drawn to the end; the first edge was
\* skipped with a diagnostic and the second one got its path.
C8_Witness ==
    /\ svg_pc = "done"
    /\ m_attr.numberOfEdges = 2
    /\ xml[1].paths = 0 /\ xml[2].paths = 1
    /\ log = <<1>>

----------------------------------------------------------------------------
(* Claims about node sizes *)

\* the nodes the running call has created so far, as indices into g_nodes
CallNodes == {e[2] : e \in class_node_map}

\* C11: every node the call created for a class has height
\* lineCount x 1.3 x 10 = 13 x lineCount and width longestLine x 0.75 x 10 =
\* 15/2 x longestLine, for the counts generate_label reports for that class; a
\* label of 3 lines and longest line 10 gives height 39 and width 75.
C11_NodeSizeFromLabel ==
    \A n \in CallNodes :
       LET m == labels[g_nodes[n].label]
       IN  /\ g_nodes[n].height = RNorm(13 * m.num_lines, 1)
           /\ g_nodes[n].width = RNorm(15 * m.longest_line, 2)
           /\ (m.num_lines = 3 /\ m.longest_line = 10)
                 => (g_nodes[n].height = RInt(39) /\ g_nodes[n].width = RInt(75))

\* C11 witness: a node was created for a class whose label has 3 lines and a
\* longest line of 10 characters, and it is 39 high and 75 wide.
C11_Witness ==
    \E n \in CallNodes :
       /\ labels[g_nodes[n].label] = [num_lines |-> 3, longest_line |-> 10]
       /\ g_nodes[n].height = RInt(39)
       /\ g_nodes[n].width = RInt(75)

----------------------------------------------------------------------------
(* Claims about SvgPrinter::drawCurve *)

\* C12: the path of a drawn edge is written by exactly one of drawLine,
\* drawLines, drawRoundPath, drawBezierPath: a list of two points by drawLine
\* whatever the settings; a longer list by drawLines when curviness is 0, by
\* drawRoundPath when curviness is not 0 and the bezier flag is false, by
\* drawBezierPath when curviness is not 0 and the flag is true.  The default
\* settings have curviness 0 and the flag false.
C12_CurveModeFromSettings ==
    /\ DefaultSettings.curviness = RZero /\ ~DefaultSettings.bezierInterpolation
    /\ CurveDrawn =>
          /\ Len(cur_points) = 2 => xml[e_idx].curve = "drawLine"
          /\ (Len(cur_points) > 2 /\ m_settings.curviness = RZero)
                => xml[e_idx].curve = "drawLines"
          /\ (Len(cur_points) > 2 /\ m_settings.curviness # RZero
                                  /\ ~m_settings.bezierInterpolation)
                => xml[e_idx].curve = "drawRoundPath"
          /\ (Len(cur_points) > 2 /\ m_settings.curviness # RZero
                                  /\ m_settings.bezierInterpolation)
                => xml[e_idx].curve = "drawBezierPath"

\* C12 witness: a list of three points was drawn with curviness 1/2 and the
\* bezier flag false, as a rounded path.
C12_Witness ==
    /\ CurveDrawn
    /\ Len(cur_points) = 3
    /\ m_settings = [curviness |-> RNorm(1, 2), bezierInterpolation |-> FALSE]
    /\ xml[e_idx].curve = "drawRoundPath"

----------------------------------------------------------------------------
(* Claims about operator<< of srcyuml_class *)

\* the entries of one pane as the claim orders them: public with "+ ",
\* private with "- ", protected with "# "
PaneEntries(m) ==
    [i \in 1..Total(m) |->
        IF i <= Len(m["PUBLIC"])
        THEN <<"+ ", m["PUBLIC"][i], ";">>
        ELSE IF i <= Len(m["PUBLIC"]) + Len(m["PRIVATE"])
        THEN <<"- ", m["PRIVATE"][i - Len(m["PUBLIC"])], ";">>
        ELSE <<"# ", m["PROTECTED"][i - Len(m["PUBLIC"]) - Len(m["PRIVATE"])], ";">>]

StereotypeMarker ==
    IF type = "DATATYPE" THEN <<<<"<<datatype>>;">>>>
    ELSE IF type = "INTERFACE" THEN <<<<"<<interface>>;">>>>
    ELSE IF type = "ABSTRACT" THEN <<<<"<<abstract>>;">>>>
    ELSE <<>>

\* what operator<< wrote between the opening '[' and the closing "]\n"
Written == SubSeq(out, 2, Len(out) - 1)

\* C13: what operator<< writes for an analyzed class is, in this order, the
\* stereotype marker if the class has one, the name, a separator if the class
\* has a field or a method, the fields (public "+ ", private "- ", protected
\* "# "), a separator if the class has a method, and the methods in the same
\* order; a class with no field, no method and no constructor is written as
\* the datatype marker and the name, with no separator and no entry.
C13_LabelOrder ==
    out # <<>> =>
       /\ Written = StereotypeMarker
                    \o <<<<data.name>>>>
                    \o (IF ~NoField(data) \/ ~NoMethod(data) THEN <<<<"|">>>> ELSE <<>>)
                    \o PaneEntries(field_texts(data))
                    \o (IF ~NoMethod(data) THEN <<<<"|">>>> ELSE <<>>)
                    \o PaneEntries(method_texts(data))
       /\ (NoField(data) /\ NoMethod(data) /\ NoConstructor(data))
             => Written = <<<<"<<datatype>>;">>, <<data.name>>>>

\* C13 witness: a class with a private field and a protected and a private
\* method was written.
C13_Witness ==
    /\ out # <<>>
    /\ Len(data.fields["PRIVATE"]) = 1
    /\ Len(data.methods["PROTECTED"]) = 1
    /\ Len(data.methods["PRIVATE"]) = 1

----------------------------------------------------------------------------
(* Claims about single steps of the merge loop *)

\* position in the chain Association < Bidirectional < Aggregation < Composition
ChainRank(k) ==
    IF k = "ASSOCIATION" THEN 1
    ELSE IF k = "BIDIRECTIONAL" THEN 2
    ELSE IF k = "AGGREGATION" THEN 3
    ELSE 4

\* C14: in every step, an entry of the merge map keeps its key, and its kind
\* changes only in a step of the merge loop in which the stored kind and the
\* incoming kind are both chain kinds and the incoming one is strictly higher;
\* the new kind is then the incoming one.  So Dependency, Generalization and
\* Realization neither replace nor are replaced, and a kind never moves down.
C14_ReplaceOnlyUpTheChain ==
    [][\A e \in edge_type_map :
          pc' # "nodes" =>
             \E f \in edge_type_map' :
                /\ f.key = e.key
                /\ f.type # e.type =>
                      /\ pc = "rels" /\ idx <= Len(relationships)
                      /\ e.type \in Chain
                      /\ relationships[idx].type \in Chain
                      /\ ChainRank(relationships[idx].type) > ChainRank(e.type)
                      /\ f.type = relationships[idx].type]_vars

\* C14 witness: Association was raised to Aggregation and a later Dependency
\* record left it alone.
C14_Witness ==
    /\ LoopFinished
    /\ KindsOf(relationships) = <<"ASSOCIATION", "AGGREGATION", "DEPENDENCY">>
    /\ StoredKind(1, 2) = "AGGREGATION"

----------------------------------------------------------------------------
(* Claims about the trimmed point list *)

\* the path of the edge drawn last
DrawnPath == edge_path(m_attr, cur_edge)

\* the segments (path[i], path[i+1]) that leave the source's covered region
LeavingAt ==
    {i \in 1..(Len(DrawnPath) - 1) :
        /\ isCoveredBy(m_attr, DrawnPath[i], cur_edge, cur_edge.source)
        /\ ~isCoveredBy(m_attr, DrawnPath[i + 1], cur_edge, cur_edge.source)}

Least(S) == CHOOSE i \in S : \A j \in S : i <= j

Greatest(S) == CHOOSE i \in S : \A j \in S : j <= i

\* the start of segment i as the loop sees it: the arrow tip on the first
\* leaving segment when a source arrow is drawn
SegStart(i) ==
    IF LeavingAt # {} /\ i = Least(LeavingAt) /\ drawSourceArrow(m_attr, cur_edge)
    THEN arrow_end(m_attr, DrawnPath[i + 1], DrawnPath[i], cur_edge.source, cur_edge)
    ELSE DrawnPath[i]

\* the segments that enter the target's covered region
EnteringAt ==
    {i \in 1..(Len(DrawnPath) - 1) :
        /\ ~isCoveredBy(m_attr, SegStart(i), cur_edge, cur_edge.target)
        /\ isCoveredBy(m_attr, DrawnPath[i + 1], cur_edge, cur_edge.target)}

\* the end of segment j as the loop leaves it when j enters the target
SegEnd(j) ==
    IF drawTargetArrow(m_attr, cur_edge)
    THEN arrow_end(m_attr, SegStart(j), DrawnPath[j + 1], cur_edge.target, cur_edge)
    ELSE DrawnPath[j + 1]

NoArrows == ~drawSourceArrow(m_attr, cur_edge) /\ ~drawTargetArrow(m_attr, cur_edge)

\* C15 as stated: the list starts at the first point leaving the source's
\* region and ends at the last point entering the target's region.
C15_EndsAtLastEntry ==
    (e_idx > 0 /\ NoArrows /\ LeavingAt # {} /\ EnteringAt # {}) =>
        /\ cur_points # <<>>
        /\ cur_points[1] = DrawnPath[Least(LeavingAt)]
        /\ cur_points[Len(cur_points)] = DrawnPath[Greatest(EnteringAt) + 1]

\* C15: the list starts at the start of the first segment leaving the source's
\* covered region and ends at the end of the FIRST segment entering the
\* target's covered region, where the loop stops (each end moved by the arrow
\* head drawn there); a path that never enters ends at its last point but
\* one, and an entry before any leaving segment leaves the entered point alone.
C15_CutAtFirstEntry ==
    e_idx > 0 =>
        cur_points =
            IF EnteringAt # {}
            THEN LET j == Least(EnteringAt)
                 IN  IF LeavingAt # {} /\ Least(LeavingAt) <= j
                     THEN LET k == Least(LeavingAt)
                          IN  <<SegStart(k)>> \o SubSeq(DrawnPath, k + 1, j)
                                              \o <<SegEnd(j)>>
                     ELSE <<SegEnd(j)>>
            ELSE IF LeavingAt # {}
                 THEN LET k == Least(LeavingAt)
                      IN  <<SegStart(k)>> \o SubSeq(DrawnPath, k + 1, Len(DrawnPath) - 1)
                 ELSE <<>>

\* C15 witness: a path that enters the target's region, leaves it and enters
\* it again was drawn, and the list stops at the first entry.
C15_Witness ==
    /\ e_idx > 0
    /\ NoArrows
    /\ LeavingAt # {}
    /\ Cardinality(EnteringAt) >= 2
    /\ Least(LeavingAt) <= Least(EnteringAt)
    /\ Len(cur_points) >= 2
    /\ cur_points[Len(cur_points)] = DrawnPath[Least(EnteringAt) + 1]
    /\ cur_points[Len(cur_points)] # DrawnPath[Greatest(EnteringAt) + 1]

----------------------------------------------------------------------------
(* Claims about the set of stereotypes *)

\* the conditions of the Datatype rule, read off the class record
DatatypeConditions(d) == NoConstructor(d) /\ NoMethod(d)

\* the Interface rule without its demand for a public method: the reading
\* under which a record can meet both rules
InterfaceConditionsLoose(d) ==
    /\ NoConstructor(d)
    /\ NoField(d)
    /\ ~d.hasDestructor
    /\ d.methods["PRIVATE"] = <<>>
    /\ d.methods["PROTECTED"] = <<>>
    /\ \A i \in 1..Len(d.methods["PUBLIC"]) : d.methods["PUBLIC"][i].isPureVirtual

\* C16: the stereotype is always one of NONE, INTERFACE and DATATYPE and never
\* ABSTRACT; after analyze_data it is NONE exactly when neither the Datatype
\* rule nor the Interface rule applies to the record, and a record that meets
\* the Datatype rule is DATATYPE even when it also meets the Interface rule
\* read without its demand for a public method.
C16_OneStereotypeOfThree ==
    /\ type \in {"NONE", "INTERFACE", "DATATYPE"}
    /\ type # "ABSTRACT"
    /\ analyzed =>
          /\ type = "NONE" <=> (~DatatypeConditions(data) /\ ~InterfaceConditions(data))
          /\ (DatatypeConditions(data) /\ InterfaceConditionsLoose(data)) => type = "DATATYPE"
          /\ ~(DatatypeConditions(data) /\ InterfaceConditions(data))

\* C16 witness: a record with a constructor and a private method, to which
\* neither rule applies, was analyzed and left NONE.
C16_Witness ==
    /\ analyzed
    /\ ~NoConstructor(data)
    /\ Len(data.methods["PRIVATE"]) = 1
    /\ ~DatatypeConditions(data) /\ ~InterfaceConditions(data)
    /\ type = "NONE"

\* C16 witness of the second case: the empty record, which meets both rules
\* in the loose reading, was typed DATATYPE.
C16_WitnessBoth ==
    /\ analyzed
    /\ DatatypeConditions(data) /\ InterfaceConditionsLoose(data)
    /\ type = "DATATYPE"

----------------------------------------------------------------------------
(* Claims about drawArrowHead *)

\* the arrow heads of the edge drawn last
Heads == IF e_idx > 0 THEN xml[Len(xml)].arrowHeads ELSE <<>>

HeadSize(h) == getArrowSize(m_attr, cur_edge, h.v)

RSq(a) == RMul(a, a)

Dot(a, b) == RAdd(RMul(a.m_x, b.m_x), RMul(a.m_y, b.m_y))

Cross(a, b) == RSub(RMul(a.m_x, b.m_y), RMul(a.m_y, b.m_x))

Minus(a, b) == DPoint(RSub(a.m_x, b.m_x), RSub(a.m_y, b.m_y))

\* the direction of the segment handed to drawArrowHead
SegDir(h) == Minus(h.end, h.start)

Finite(p) == p.m_x[2] > 0 /\ p.m_y[2] > 0

\* the tip lies on the line through the segment
TipOnSegmentLine(h) == Cross(Minus(h.tip, h.start), SegDir(h)) = RZero

\* the tip lies on the boundary of the rectangle expanded by the clearance
TipOnExpandedBoundary(h) ==
    LET n == m_attr.nodes[h.v]
        size == HeadSize(h)
    IN  /\ isCoveredBy(m_attr, h.tip, cur_edge, h.v)
        /\ \/ h.tip.m_x = RSub(RSub(RInt(n.x), RHalf(n.width)), size)
           \/ h.tip.m_x = RAdd(RAdd(RInt(n.x), RHalf(n.width)), size)
           \/ h.tip.m_y = RSub(RSub(RInt(n.y), RHalf(n.height)), size)
           \/ h.tip.m_y = RAdd(RAdd(RInt(n.y), RHalf(n.height)), size)

\* the x of the vertical side and the y of the horizontal side of the node's
\* own rectangle that face the start of the segment
FacingSideX(h) ==
    LET n == m_attr.nodes[h.v]
    IN  IF RLt(RZero, SegDir(h).m_x) THEN RSub(RInt(n.x), RHalf(n.width))
        ELSE RAdd(RInt(n.x), RHalf(n.width))

FacingSideY(h) ==
    LET n == m_attr.nodes[h.v]
    IN  IF RLt(RZero, SegDir(h).m_y) THEN RSub(RInt(n.y), RHalf(n.height))
        ELSE RAdd(RInt(n.y), RHalf(n.height))

\* the point of the segment's line on the facing vertical side (dx # 0)
VerticalSidePoint(h) ==
    DPoint(FacingSideX(h),
           RAdd(h.start.m_y,
                RMul(RSub(FacingSideX(h), h.start.m_x),
                     RDiv(SegDir(h).m_y, SegDir(h).m_x))))

\* the tip lies where the segment's line meets a side line of the node's own
\* rectangle: the vertical side when that point is covered, else the horizontal
TipOnRectangleSide(h) ==
    IF SegDir(h).m_x = RZero
    THEN h.tip.m_x = h.end.m_x /\ h.tip.m_y = FacingSideY(h)
    ELSE /\ TipOnSegmentLine(h)
         /\ IF isCoveredBy(m_attr, VerticalSidePoint(h), cur_edge, h.v)
            THEN h.tip = VerticalSidePoint(h)
            ELSE h.tip.m_y = FacingSideY(h)

\* the centre of the base, as an offset from the tip scaled like d2 and d3
BaseCentre(h) == DPoint(RMul(RNorm(1, 2), RAdd(h.d2.m_x, h.d3.m_x)), RMul(RNorm(1, 2), RAdd(h.d2.m_y, h.d3.m_y)))

\* the polygon is an isosceles triangle aligned with the segment: the base
\* centre lies on the segment's line one clearance behind the tip, the base is
\* perpendicular to the segment and its corners are clearance/4 from its centre
TriangleAligned(h) ==
    LET m == BaseCentre(h)
        quarter == RDiv(HeadSize(h), RInt(4))
    IN  /\ Cross(m, SegDir(h)) = RZero
        /\ RLt(Dot(m, SegDir(h)), RZero)
        /\ Dot(m, m) = RMul(RSq(HeadSize(h)), h.len2)
        /\ Dot(Minus(h.d2, h.d3), SegDir(h)) = RZero
        /\ Dot(Minus(h.d2, m), Minus(h.d2, m)) = RMul(RSq(quarter), h.len2)
        /\ Dot(Minus(h.d3, m), Minus(h.d3, m)) = RMul(RSq(quarter), h.len2)

VerticalTipKeepsX(h) == SegDir(h).m_x = RZero => h.tip.m_x = h.end.m_x

\* C17 as stated: the tip is the intersection of the segment with the boundary
\* of the clearance-expanded rectangle, the polygon is the aligned isosceles
\* triangle, and a vertical segment keeps its x.
C17_TipOnExpandedRectangle ==
    \A i \in 1..Len(Heads) :
        /\ TipOnSegmentLine(Heads[i])
        /\ TipOnExpandedBoundary(Heads[i])
        /\ TriangleAligned(Heads[i])
        /\ VerticalTipKeepsX(Heads[i])

\* C17: the tip is the point where the line of the segment meets a side line
\* of the node's own rectangle, not of the expanded one (the facing vertical
\* side when that point is in the covered region, else the facing horizontal
\* side); the polygon is an isosceles triangle aligned with the segment, its
\* base centre one clearance behind the tip and its corners clearance/4 from
\* the centre; for a vertical segment the tip has the segment's x coordinate.
C17_TipOnNodeRectangle ==
    \A i \in 1..Len(Heads) :
        /\ Finite(Heads[i].tip)
        /\ TipOnRectangleSide(Heads[i])
        /\ TriangleAligned(Heads[i])
        /\ VerticalTipKeepsX(Heads[i])

\* C17 witness: an edge with two arrow heads was drawn, one of them on a
\* slanted segment with its tip on the horizontal side of the node.
C17_Witness ==
    /\ Len(Heads) = 2
    /\ \E i \in 1..Len(Heads) :
          /\ SegDir(Heads[i]).m_x # RZero
          /\ SegDir(Heads[i]).m_y # RZero
          /\ ~isCoveredBy(m_attr, VerticalSidePoint(Heads[i]), cur_edge, Heads[i].v)
          /\ Heads[i].tip.m_y = FacingSideY(Heads[i])

\* C17 witness of the vertical case: a head on a vertical segment was drawn.
C17_WitnessVertical ==
    \E i \in 1..Len(Heads) :
        /\ SegDir(Heads[i]).m_x = RZero
        /\ Heads[i].tip.m_x = Heads[i].end.m_x

====
